---- MODULE Spec2Model ----
(***************************************************************************)
(* The chat endpoint of the documentation server: the in-process store of  *)
(* conversation threads (`threads`), the periodic sweep of expired threads *)
(* (`cleanExpiredThreads`, on a 5-minute interval timer) and the request   *)
(* handler `chatHandler`, an async function that suspends at its two       *)
(* awaits (the search call and the model call).  Each action below is one  *)
(* synchronous run of code between two suspension points of the            *)
(* single-threaded event loop.                                             *)
(*                                                                         *)
(* Representation choices:                                                 *)
(*  - `threads` is a JavaScript Map; it is a sequence of [key, value]      *)
(*    pairs in insertion order, which is the Map's iteration order.        *)
(*  - a string is [id, len]: what it says and how many characters it has;  *)
(*    slice(0, n) keeps the first Min(len, n) characters.                  *)
(*  - a thread id is [gen, n]: Generated(t) is the string `thread_<t>`,    *)
(*    Client(i) is the i-th other string a client may send, and            *)
(*    NoThreadId stands for every falsy value of req.body.threadId         *)
(*    (undefined, null, "").                                               *)
(*  - Date.now() is `now`, in milliseconds; it never runs backwards.       *)
(*  - history entries carry the number of the request that made them       *)
(*    (`turn`), and `ghost`, `stale`, `tainted`, `found`, `nSearch`,       *)
(*    `nModel` and `persisted` are history variables: the code has no such *)
(*    fields, they only record what happened so that properties can talk   *)
(*    about it.                                                            *)
(*  - a handler that has responded is gone: its slot is idle again.  The    *)
(*    response is the output of the step that sends it: `sent` holds it    *)
(*    in the state that step leads to, and is empty after any other step.  *)
(***************************************************************************)
EXTENDS Integers, Sequences, FiniteSets, TLC

----------------------------------------------------------------------------
(* Program constants *)

MAX_HISTORY_ENTRIES == 4
MAX_HISTORY_CHAR == 200
THREAD_TTL_MS == 30 * 60 * 1000
SWEEP_INTERVAL_MS == 5 * 60 * 1000
MAX_THREADS == 100

(* Bounds of the model *)

\* requests that may be in flight together
NumSlots == 2
\* requests received in one behaviour
MaxTurns == 2

Slots == 1..NumSlots

\* when the sweep timer last ran before a behaviour starts (or was set up, if
\* the process has only just started), and Date.now() at the start, a
\* millisecond later
LastSweep == THREAD_TTL_MS
StartTime == LastSweep + 1

\* the readings of the clock a behaviour goes through: the start, and the time
\* the sweep timer is next due
ClockReadings == {StartTime, LastSweep + SWEEP_INTERVAL_MS}

----------------------------------------------------------------------------
(* Values *)

Min(a, b) == IF a < b THEN a ELSE b

Client(i) == [gen |-> FALSE, n |-> i]
Generated(t) == [gen |-> TRUE, n |-> t]
NoThreadId == [gen |-> FALSE, n |-> 0]
Truthy(tid) == tid # NoThreadId

\* the thread ids clients send besides the generated ones they were given
ClientIds == {Client(1)}

NoMessage == [id |-> "", len |-> 0]
Question == [id |-> "question", len |-> 8]
Answer == [id |-> "answer", len |-> MAX_HISTORY_CHAR + 1]
NoResponseGenerated == [id |-> "No response generated.", len |-> 22]

\* req.body.messages: falsy (absent or "") or a text
UserMessages == {NoMessage, Question}

\* response.content of the model: with or without a text block
ModelContents ==
    { <<>>,
      <<[type |-> "tool_use", text |-> NoMessage], [type |-> "text", text |-> Answer]>> }

\* what searchNearDocs resolves to
SearchResultSets ==
    { <<[title |-> "Doc", path |-> "/doc"], [title |-> "Untitled", path |-> ""]>> }

MessageRequired == "Message is required"
KeyNotConfigured == "Anthropic API key not configured"
FailedToProcess == "Failed to process chat request"

----------------------------------------------------------------------------
(* Sequences and the Map *)

\* Array.prototype.slice(-n)
SliceLast(s, n) ==
    IF Len(s) <= n THEN s ELSE SubSeq(s, Len(s) - n + 1, Len(s))

\* a slice that keeps the whole text
SliceTextKeepingAll(text, n) == text

\* String.prototype.slice(0, n)
SliceText(text, n) == [text EXCEPT !.len = Min(text.len, n)]

MapHas(m, k) == \E i \in 1..Len(m) : m[i].key = k
MapIndex(m, k) == CHOOSE i \in 1..Len(m) : m[i].key = k
MapGet(m, k) == m[MapIndex(m, k)].value

\* Map.prototype.set, with the entry moved to the end: not what a Map does
MapSetMovingToEnd(m, k, v) ==
    Append(SelectSeq(m, LAMBDA e : e.key # k), [key |-> k, value |-> v])

\* Map.prototype.set: an existing key keeps its place in the iteration order
MapSet(m, k, v) ==
    IF MapHas(m, k)
    THEN [m EXCEPT ![MapIndex(m, k)].value = v]
    ELSE Append(m, [key |-> k, value |-> v])

MapDelete(m, k) == SelectSeq(m, LAMBDA e : e.key # k)

----------------------------------------------------------------------------
(* The pure functions of the handler *)

Entry(role, text, turn) == [role |-> role, text |-> text, turn |-> turn]

\* buildHistoryContext, with no cap on the entries it takes
buildHistoryContextUncapped(history) ==
    IF Len(history) = 0
    THEN [wrapped |-> FALSE, lines |-> <<>>]
    ELSE [wrapped |-> TRUE,
          lines |-> [i \in 1..Len(history) |->
                       [role |-> history[i].role,
                        text |-> SliceText(history[i].text, MAX_HISTORY_CHAR)]]]

\* buildHistoryContext: "" for an empty history, else the wrapped lines
\* `<role>: <text.slice(0, 200)>` of the last four entries
buildHistoryContext(history) ==
    buildHistoryContextUncapped(SliceLast(history, MAX_HISTORY_ENTRIES))

\* buildSearchContext: the no-documents marker, or one <doc index=i> per result
buildSearchContext(results) ==
    IF Len(results) = 0
    THEN [marker |-> TRUE, docs |-> <<>>]
    ELSE [marker |-> FALSE,
          docs |-> [i \in 1..Len(results) |->
                      [index |-> i, title |-> results[i].title, path |-> results[i].path]]]

NoContent ==
    [historyContext |-> buildHistoryContext(<<>>),
     searchContext |-> buildSearchContext(<<>>),
     userMessage |-> NoMessage]

\* response.content.find(block => block.type === "text"), or the fallback
AssistantMessage(content) ==
    IF \E i \in 1..Len(content) : content[i].type = "text"
    THEN content[CHOOSE i \in 1..Len(content) :
                    /\ content[i].type = "text"
                    /\ \A j \in 1..(i - 1) : content[j].type # "text"].text
    ELSE NoResponseGenerated

\* a fresh `thread_${Date.now()}` whatever the request says
NewThreadIdAlwaysGenerated(threadId, t) == Generated(t)

\* threadId || `thread_${Date.now()}`
NewThreadId(threadId, t) == IF Truthy(threadId) THEN threadId ELSE Generated(t)

\* [...history, user, assistant] kept from the front: not what slice(-4) does
UpdatedEntriesKeepingOldest(history, userMessage, assistantMessage, turn) ==
    SubSeq(history \o <<Entry("user", userMessage, turn),
                        Entry("assistant", assistantMessage, turn)>>,
           1, Min(Len(history) + 2, MAX_HISTORY_ENTRIES))

\* [...history, user, assistant] with no trimming
UpdatedEntriesUntrimmed(history, userMessage, assistantMessage, turn) ==
    history \o <<Entry("user", userMessage, turn),
                 Entry("assistant", assistantMessage, turn)>>

\* [...history, user, assistant].slice(-MAX_HISTORY_ENTRIES)
UpdatedEntries(history, userMessage, assistantMessage, turn) ==
    SliceLast(history \o <<Entry("user", userMessage, turn),
                           Entry("assistant", assistantMessage, turn)>>,
              MAX_HISTORY_ENTRIES)

\* the capacity check with its threshold one too high
EnforceCapacityOffByOne(m) ==
    IF Len(m) > MAX_THREADS + 1 /\ Truthy(m[1].key) THEN MapDelete(m, m[1].key) ELSE m

\* the capacity check run already when the store is full
EnforceCapacityWhenFull(m) ==
    IF Len(m) >= MAX_THREADS /\ Truthy(m[1].key) THEN MapDelete(m, m[1].key) ELSE m

\* if (threads.size > 100) delete threads.keys().next().value, when it is truthy
EnforceCapacity(m) ==
    IF Len(m) > MAX_THREADS /\ Truthy(m[1].key) THEN MapDelete(m, m[1].key) ELSE m

\* the sweep's test with `>=`: a thread exactly as old as the TTL goes too
ExpiredAtTtl(thread, t) == t - thread.lastAccess >= THREAD_TTL_MS

\* now - thread.lastAccess > THREAD_TTL_MS
Expired(thread, t) == t - thread.lastAccess > THREAD_TTL_MS

\* sources: the results with a path, as {title, path}
Sources(results) ==
    LET withPath == SelectSeq(results, LAMBDA r : r.path # "")
    IN  [i \in 1..Len(withPath) |-> [title |-> withPath[i].title, path |-> withPath[i].path]]

----------------------------------------------------------------------------
(* State *)

VARIABLES
    threads,     \* the Map `threads`: <<[key, value: [entries, lastAccess]], ...>>
    anthropic,   \* whether the model client was built (ANTHROPIC_API_KEY was set)
    now,         \* Date.now()
    nextSweep,   \* when the interval timer next runs cleanExpiredThreads
    reqs,        \* the calls of chatHandler in flight: position, arguments, locals
    sent,        \* the response the last step sent, if it sent one, and what
                 \* its request did
    nStarted,    \* how many requests were received
    ghost        \* per stored key written since the start: every entry persisted
                 \* under it since its record was created, and whether those turns
                 \* ran one after the other

vars == <<threads, anthropic, now, nextSweep, reqs, sent, nStarted, ghost>>

NoBody == [error |-> "", message |-> NoMessage, threadId |-> NoThreadId, sources |-> <<>>]
ErrorBody(text) == [NoBody EXCEPT !.error = text]

IdleReq ==
    [pc |-> "idle", userMessage |-> NoMessage, threadId |-> NoThreadId,
     searchResults |-> <<>>, history |-> <<>>, userContent |-> NoContent,
     turn |-> 0, found |-> FALSE, stale |-> {}, tainted |-> FALSE,
     nSearch |-> 0, nModel |-> 0]

NoResponse ==
    [status |-> 0, body |-> NoBody, turn |-> 0,
     userMessage |-> NoMessage, threadId |-> NoThreadId, found |-> FALSE, stale |-> {},
     nSearch |-> 0, nModel |-> 0, persisted |-> FALSE]

InFlight(r) == r.pc \in {"search", "model"}

\* a record as a first turn with no history leaves it
FirstTurnEntries == UpdatedEntries(<<>>, Question, Answer, 0)

\* when the i-th thread of a store was last used: the first when the clock
\* read 0 (the last sweep found it exactly as old as the TTL and kept it), the
\* second one sweep interval later, the others at the last sweep
PrefillLastAccess(i) ==
    IF i = 1 THEN 0 ELSE IF i = 2 THEN SWEEP_INTERVAL_MS ELSE LastSweep

\* a store of n threads, created one after the other by first turns
Prefill(n) ==
    [i \in 1..n |->
        [key |-> Client(i),
         value |-> [entries |-> FirstTurnEntries, lastAccess |-> PrefillLastAccess(i)]]]

\* the sizes of the store a behaviour starts from: empty (the state after
\* construction) and at capacity
InitSizes == {0, MAX_THREADS}

InitOfSize(n) ==
    /\ threads = Prefill(n)
    /\ anthropic \in BOOLEAN
    /\ now = StartTime
    /\ nextSweep = LastSweep + SWEEP_INTERVAL_MS
    /\ reqs = [s \in Slots |-> IdleReq]
    /\ sent = NoResponse
    /\ nStarted = 0
    /\ ghost = <<>>

Init == \E n \in InitSizes : InitOfSize(n)

----------------------------------------------------------------------------
(* chatHandler, up to its first await *)

\* a request takes the lowest slot that holds no request in flight
FreeSlot(s) ==
    /\ ~InFlight(reqs[s])
    /\ \A t \in Slots : t < s => InFlight(reqs[t])

\* the thread ids a client sends: none, one of its own, a generated one it
\* was given
ThreadIdInputs ==
    {NoThreadId} \cup ClientIds
        \cup {threads[i].key : i \in {j \in 1..Len(threads) : threads[j].key.gen}}

\* the two checks in the other order
ValidateConfigurationFirst(userMessage, configured) ==
    IF ~configured THEN 500
    ELSE IF userMessage = NoMessage THEN 400
    ELSE 0

\* if (!userMessage) 400; if (!anthropic) 500: the status the handler ends with,
\* 0 when it goes on
Validate(userMessage, configured) ==
    IF userMessage = NoMessage THEN 400
    ELSE IF ~configured THEN 500
    ELSE 0

NewReq(userMessage, threadId) ==
    [IdleReq EXCEPT !.userMessage = userMessage, !.threadId = threadId,
                    !.turn = nStarted + 1]

\* res.status(status).json(body), with what the request did until then
Response(r, status, body, persisted) ==
    [status |-> status, body |-> body, turn |-> r.turn,
     userMessage |-> r.userMessage, threadId |-> r.threadId, found |-> r.found,
     stale |-> r.stale,
     nSearch |-> r.nSearch, nModel |-> r.nModel, persisted |-> persisted]

\* the catch block, answering with the error it caught
CatchResponseLeakingError(r) ==
    Response(r, 500, ErrorBody("upstream error"), FALSE)

\* catch (error): res.status(500).json({ error: "Failed to process chat request" })
CatchResponse(r) ==
    Response(r, 500, ErrorBody(FailedToProcess), FALSE)

\* the 400 branch without its `return`: the handler answers and goes on
RejectMissingMessageAndGoOn ==
    \E s \in Slots, userMessage \in UserMessages, threadId \in ThreadIdInputs :
        /\ FreeSlot(s)
        /\ nStarted < MaxTurns
        /\ Validate(userMessage, anthropic) = 400
        /\ sent' =
               Response(NewReq(userMessage, threadId), 400, ErrorBody(MessageRequired), FALSE)
        /\ reqs' = [reqs EXCEPT ![s] =
                      [NewReq(userMessage, threadId) EXCEPT !.pc = "search", !.nSearch = 1]]
        /\ nStarted' = nStarted + 1
        /\ UNCHANGED <<threads, anthropic, now, nextSweep, ghost>>

RejectMissingMessage ==
    \E s \in Slots, userMessage \in UserMessages, threadId \in ThreadIdInputs :
        /\ FreeSlot(s)
        /\ nStarted < MaxTurns
        /\ Validate(userMessage, anthropic) = 400
        /\ sent' =
               Response(NewReq(userMessage, threadId), 400, ErrorBody(MessageRequired), FALSE)
        /\ nStarted' = nStarted + 1
        /\ UNCHANGED <<threads, anthropic, now, nextSweep, reqs, ghost>>

RejectNotConfigured ==
    \E s \in Slots, userMessage \in UserMessages, threadId \in ThreadIdInputs :
        /\ FreeSlot(s)
        /\ nStarted < MaxTurns
        /\ Validate(userMessage, anthropic) = 500
        /\ sent' =
               Response(NewReq(userMessage, threadId), 500, ErrorBody(KeyNotConfigured), FALSE)
        /\ nStarted' = nStarted + 1
        /\ UNCHANGED <<threads, anthropic, now, nextSweep, reqs, ghost>>

\* await searchNearDocs(userMessage): the call is made, the handler suspends
StartSearch ==
    \E s \in Slots, userMessage \in UserMessages, threadId \in ThreadIdInputs :
        /\ FreeSlot(s)
        /\ nStarted < MaxTurns
        /\ Validate(userMessage, anthropic) = 0
        /\ reqs' = [reqs EXCEPT ![s] =
                      [NewReq(userMessage, threadId) EXCEPT !.pc = "search", !.nSearch = 1]]
        /\ nStarted' = nStarted + 1
        /\ sent' = NoResponse
        /\ UNCHANGED <<threads, anthropic, now, nextSweep, ghost>>

----------------------------------------------------------------------------
(* History variables: what interfered with a request in flight *)

\* the requests in flight on a key removed from the store no longer continue
\* its record
TaintRemoved(rs, before, after) ==
    [s \in Slots |->
        IF /\ InFlight(rs[s])
           /\ MapHas(before, rs[s].threadId)
           /\ ~MapHas(after, rs[s].threadId)
        THEN [rs[s] EXCEPT !.tainted = TRUE]
        ELSE rs[s]]

\* the request in slot `writer` wrote key: the other requests in flight on it
\* overlap that turn, and the ones that have read the record hold a history
\* without it
TaintWritten(rs, writer, key) ==
    [s \in Slots |->
        IF s # writer /\ InFlight(rs[s]) /\ rs[s].threadId = key
        THEN [rs[s] EXCEPT
                !.tainted = TRUE,
                !.stale = IF rs[s].pc = "model"
                          THEN @ \cup {[turn |-> rs[writer].turn, found |-> rs[writer].found]}
                          ELSE @]
        ELSE rs[s]]

\* the ghost of key k in store m: a record not written since the start holds
\* the turns it started with
GhostOf(g, m, k) ==
    IF k \in DOMAIN g THEN g[k] ELSE [chron |-> MapGet(m, k).entries, clean |-> TRUE]

\* the ghost of a store after request r wrote `pair` under key
GhostAfterPersist(g, before, after, r, key, pair) ==
    LET existed == MapHas(before, key)
        interfered == r.tainted \/ (existed /\ ~Truthy(r.threadId))
        old == GhostOf(g, before, key)
    IN  [k \in {j \in DOMAIN g \cup {key} : MapHas(after, j)} |->
            IF k # key THEN g[k]
            ELSE IF existed
                 THEN [chron |-> old.chron \o pair, clean |-> old.clean /\ ~interfered]
                 ELSE [chron |-> pair, clean |-> ~interfered]]

----------------------------------------------------------------------------
(* chatHandler, from the search call's result to the model call *)

\* threadId && threads.has(threadId)
SessionFound(m, threadId) == Truthy(threadId) /\ MapHas(m, threadId)

\* the lookup that leaves lastAccess alone
ThreadsAfterLookupWithoutTouch(m, threadId, t) == m

\* thread.lastAccess = Date.now(), on the record found
ThreadsAfterLookup(m, threadId, t) ==
    IF SessionFound(m, threadId)
    THEN [m EXCEPT ![MapIndex(m, threadId)].value.lastAccess = t]
    ELSE m

\* history = thread.entries, or [] when the thread id is falsy or unknown
HistoryOf(m, threadId) ==
    IF SessionFound(m, threadId) THEN MapGet(m, threadId).entries ELSE <<>>

\* `${historyContext}${searchContext}\n\n${userMessage}`
UserContent(history, results, userMessage) ==
    [historyContext |-> buildHistoryContext(history),
     searchContext |-> buildSearchContext(results),
     userMessage |-> userMessage]

\* the search call resolved: lines 146-157, up to await anthropic.messages.create
SearchResolves ==
    \E s \in Slots, results \in SearchResultSets :
        LET r == reqs[s]
            history == HistoryOf(threads, r.threadId)
        IN  /\ r.pc = "search"
            /\ threads' = ThreadsAfterLookup(threads, r.threadId, now)
            /\ reqs' = [reqs EXCEPT ![s] =
                          [r EXCEPT !.pc = "model",
                                    !.searchResults = results,
                                    !.history = history,
                                    !.userContent = UserContent(history, results, r.userMessage),
                                    !.found = SessionFound(threads, r.threadId),
                                    !.nModel = @ + 1]]
            /\ sent' = NoResponse
            /\ UNCHANGED <<anthropic, now, nextSweep, nStarted, ghost>>

\* the search call threw: the catch block answers 500
SearchRejects ==
    \E s \in Slots :
        /\ reqs[s].pc = "search"
        /\ reqs' = [reqs EXCEPT ![s] = IdleReq]
        /\ sent' = CatchResponse(reqs[s])
        /\ UNCHANGED <<threads, anthropic, now, nextSweep, nStarted, ghost>>

----------------------------------------------------------------------------
(* chatHandler, from the model call's result to the response *)

\* the entries to persist, from the record as it is now instead of the
\* history the handler read
PersistedEntriesRereading(r, assistantMessage) ==
    UpdatedEntries(HistoryOf(threads, r.threadId), r.userMessage, assistantMessage, r.turn)

\* updatedEntries: the history the handler read, plus this turn
PersistedEntries(r, assistantMessage) ==
    UpdatedEntries(r.history, r.userMessage, assistantMessage, r.turn)

\* threads.set(newThreadId, {entries, lastAccess}) and the capacity check
ThreadsAfterPersist(m, key, entries, t) ==
    EnforceCapacity(MapSet(m, key, [entries |-> entries, lastAccess |-> t]))

\* the model call resolved: lines 171-206
ModelResolves ==
    \E s \in Slots, content \in ModelContents :
        LET r == reqs[s]
            assistantMessage == AssistantMessage(content)
            newThreadId == NewThreadId(r.threadId, now)
            updatedEntries == PersistedEntries(r, assistantMessage)
            after == ThreadsAfterPersist(threads, newThreadId, updatedEntries, now)
            pair == <<Entry("user", r.userMessage, r.turn),
                      Entry("assistant", assistantMessage, r.turn)>>
            body == [error |-> "", message |-> assistantMessage,
                     threadId |-> newThreadId, sources |-> Sources(r.searchResults)]
        IN  /\ r.pc = "model"
            /\ threads' = after
            /\ ghost' = GhostAfterPersist(ghost, threads, after, r, newThreadId, pair)
            /\ reqs' = [TaintRemoved(TaintWritten(reqs, s, newThreadId),
                                     threads, after)
                            EXCEPT ![s] = IdleReq]
            /\ sent' = Response(r, 200, body, TRUE)
            /\ UNCHANGED <<anthropic, now, nextSweep, nStarted>>

\* the model call threw: the catch block answers 500
ModelRejects ==
    \E s \in Slots :
        /\ reqs[s].pc = "model"
        /\ reqs' = [reqs EXCEPT ![s] = IdleReq]
        /\ sent' = CatchResponse(reqs[s])
        /\ UNCHANGED <<threads, anthropic, now, nextSweep, nStarted, ghost>>

----------------------------------------------------------------------------
(* The sweep and the clock *)

SweepExpired(m, t) == SelectSeq(m, LAMBDA e : ~Expired(e.value, t))

\* setInterval(cleanExpiredThreads, 5 * 60 * 1000): the timer is due
cleanExpiredThreads ==
    LET after == SweepExpired(threads, now)
    IN  /\ now >= nextSweep
        /\ threads' = after
        /\ nextSweep' = nextSweep + SWEEP_INTERVAL_MS
        /\ ghost' = [k \in {j \in DOMAIN ghost : MapHas(after, j)} |-> ghost[k]]
        /\ reqs' = TaintRemoved(reqs, threads, after)
        /\ sent' = NoResponse
        /\ UNCHANGED <<anthropic, now, nStarted>>

\* time passes, but not beyond the time the sweep timer is due
Tick ==
    \E t \in ClockReadings :
        /\ t > now
        /\ t <= nextSweep
        /\ now' = t
        /\ sent' = NoResponse
        /\ UNCHANGED <<threads, anthropic, nextSweep, reqs, nStarted, ghost>>

Next ==
    \/ RejectMissingMessage
    \/ RejectNotConfigured
    \/ StartSearch
    \/ SearchResolves
    \/ SearchRejects
    \/ ModelResolves
    \/ ModelRejects
    \/ cleanExpiredThreads
    \/ Tick

Spec == Init /\ [][Next]_vars

\* the pending call of the handler in slot s returned or threw, and the
\* handler ran on from its await
Continues(s) ==
    /\ InFlight(reqs[s])
    /\ SearchRejects \/ ModelRejects \/ SearchResolves \/ ModelResolves
    /\ reqs'[s].pc # reqs[s].pc

\* the server from the state after construction (the store is empty), with
\* what the event loop and the clock guarantee: time passes and a timer that
\* is due runs.  Nothing is assumed of the upstream calls.
LiveSpec ==
    /\ InitOfSize(0)
    /\ [][Next]_vars
    /\ WF_vars(Tick)
    /\ WF_vars(cleanExpiredThreads)

----------------------------------------------------------------------------
(* What a step did, read off the two states it joins *)

\* the handler in slot s resolved its session and called the model
LookedUp(s) == reqs[s].pc = "search" /\ reqs'[s].pc = "model"

\* the handler in slot s persisted its turn and responded
Persisted(s) == reqs[s].pc = "model" /\ reqs'[s].pc = "idle" /\ sent'.persisted

\* the handler in slot s ended in its catch block
Caught(s) == InFlight(reqs[s]) /\ reqs'[s].pc = "idle" /\ ~sent'.persisted

\* the i-th thread before the step and the j-th after it: if they are the
\* same thread, its lastAccess did not go back
NotNewer(i, j) ==
    threads[i].key = threads'[j].key
    => threads[i].value.lastAccess <= threads'[j].value.lastAccess

\* the interval timer ran cleanExpiredThreads
Swept == nextSweep' # nextSweep

KeySeq(m) == [i \in 1..Len(m) |-> m[i].key]
EntriesSeq(m) == [i \in 1..Len(m) |-> [key |-> m[i].key, entries |-> m[i].value.entries]]

----------------------------------------------------------------------------
(* C1: every stored thread holds at most 4 history entries, in every
   reachable state, whatever the interleaving of requests, sweeps and
   capacity evictions. *)
C1_HistoryCapped ==
    \A i \in 1..Len(threads) : Len(threads[i].value.entries) <= MAX_HISTORY_ENTRIES

\* a thread at the cap that has been given more entries than it holds
C1_Witness ==
    \E k \in DOMAIN ghost :
        /\ Len(MapGet(threads, k).entries) = MAX_HISTORY_ENTRIES
        /\ Len(ghost[k].chron) > MAX_HISTORY_ENTRIES

(* C2: after N >= 1 successful turns on a thread id that ran one after the
   other, with no sweep or eviction of the id in between, the stored entries
   are the last min(4, 2N) entries of user_1, assistant_1, ..., user_N,
   assistant_N, in that order. *)
C2_LastEntriesInOrder ==
    \A k \in DOMAIN ghost :
        ghost[k].clean =>
            LET chron == ghost[k].chron
                entries == MapGet(threads, k).entries
                kept == IF Len(chron) < MAX_HISTORY_ENTRIES
                        THEN Len(chron) ELSE MAX_HISTORY_ENTRIES
            IN  /\ Len(entries) = kept
                /\ \A i \in 1..kept : entries[i] = chron[Len(chron) - kept + i]
                /\ \A i \in 1..Len(chron) :
                      chron[i].role = IF i % 2 = 1 THEN "user" ELSE "assistant"
                /\ \A i \in 1..(Len(chron) - 1) : chron[i].turn <= chron[i + 1].turn

\* three turns one after the other on one thread: the first one's entries are
\* the ones dropped
C2_Witness ==
    \E k \in DOMAIN ghost :
        /\ ghost[k].clean
        /\ Len(ghost[k].chron) = MAX_HISTORY_ENTRIES + 2
        /\ MapGet(threads, k).entries[1] = ghost[k].chron[3]


(* C3: a thread older than the 30-minute TTL is never returned to a caller: a
   turn that supplies its id then is handled with empty history (nothing of
   the old entries in the prompt), whether or not the sweep has run since it
   expired. *)
C3_ExpiredNeverReturned ==
    [][\A s \in Slots :
        (/\ LookedUp(s)
         /\ SessionFound(threads, reqs[s].threadId)
         /\ now - MapGet(threads, reqs[s].threadId).lastAccess > THREAD_TTL_MS)
        => /\ reqs'[s].history = <<>>
           /\ ~reqs'[s].userContent.historyContext.wrapped]_vars

(* C4: the store holds at most 100 threads in every state between two steps
   of the handlers and the sweep. *)
C4_StoreBounded == Len(threads) <= MAX_THREADS

\* a turn on a new id has just been persisted into a full store
C4_Witness ==
    /\ sent.persisted
    /\ ~sent.found
    /\ Len(threads) = MAX_THREADS
    /\ threads[Len(threads)].key = sent.body.threadId
    /\ threads[1].key # Client(1)

(* C5: when a persist makes the store hold more than 100 threads, exactly one
   thread is removed in that step, the first in insertion order, whatever its
   lastAccess; writing an existing id again does not move it in that order. *)
C5_EvictsFirstInserted ==
    [][\A s \in Slots :
        Persisted(s) =>
            LET key == sent'.body.threadId
            IN  IF MapHas(threads, key)
                THEN KeySeq(threads') = KeySeq(threads)
                ELSE IF Len(threads) + 1 > MAX_THREADS
                THEN /\ Len(threads') = Len(threads)
                     /\ \A i \in 1..(Len(threads) - 1) : threads'[i] = threads[i + 1]
                     /\ threads'[Len(threads')].key = key
                ELSE /\ Len(threads') = Len(threads) + 1
                     /\ \A i \in 1..Len(threads) : threads'[i] = threads[i]]_vars

\* a request has just read the first thread, which made it the most recently
\* used one, and a turn on a new id evicted it, while the second thread, idle
\* since long before, remains
C5_Witness ==
    /\ sent.persisted
    /\ Len(threads) = MAX_THREADS
    /\ threads[1].key = Client(2)
    /\ threads[1].value.lastAccess = SWEEP_INTERVAL_MS
    /\ threads[Len(threads)].key = sent.body.threadId
    /\ nextSweep = LastSweep + SWEEP_INTERVAL_MS
    /\ \E s \in Slots :
          /\ reqs[s].pc = "model"
          /\ reqs[s].threadId = Client(1)
          /\ reqs[s].found
          /\ ~MapHas(threads, Client(1))

(* C6: a request that fails validation (no user message: 400; model client
   not configured: 500; checked in that order) leaves the store unchanged and
   makes neither the search call nor the model call. *)
C6_RejectionTouchesNothing ==
    [][(sent'.status = 400 \/ sent'.body.error = KeyNotConfigured)
        => /\ threads' = threads
           /\ reqs' = reqs
           /\ sent'.nSearch = 0 /\ sent'.nModel = 0
           /\ (sent'.status = 400) = (sent'.userMessage = NoMessage)
           /\ sent'.status = 400 => sent'.body = ErrorBody(MessageRequired)
           /\ sent'.status # 400 =>
                /\ sent'.status = 500
                /\ sent'.body = ErrorBody(KeyNotConfigured)
                /\ ~anthropic]_vars

\* a request with neither a message nor a configured client got the 400, over
\* a store that holds threads
C6_Witness ==
    /\ sent.status = 400
    /\ ~anthropic
    /\ Len(threads) > 0


(* C7: when two requests on the same existing thread both read its history
   before either persists, both succeed, and the record left by the one that
   persists last is the history it read plus its own turn, trimmed to 4: the
   turn of the one that persisted first is lost. *)
C7_LastWriterWins ==
    [][\A s \in Slots :
        (Persisted(s) /\ reqs[s].found /\ reqs[s].stale # {})
        => LET r == reqs[s]
               all == r.history \o <<Entry("user", r.userMessage, r.turn),
                                      Entry("assistant", sent'.body.message, r.turn)>>
               drop == IF Len(all) > MAX_HISTORY_ENTRIES
                       THEN Len(all) - MAX_HISTORY_ENTRIES ELSE 0
               entries == MapGet(threads', r.threadId).entries
           IN  /\ sent'.status = 200
               /\ MapHas(threads', r.threadId)
               /\ Len(entries) = Len(all) - drop
               /\ \A i \in 1..Len(entries) : entries[i] = all[drop + i]
               /\ \A i \in 1..Len(entries), w \in r.stale : entries[i].turn # w.turn]_vars

\* the second of two such requests has just persisted over the first's turn
C7_Witness ==
    /\ sent.persisted
    /\ sent.found
    /\ \E w \in sent.stale : w.found
    /\ MapHas(threads, sent.threadId)

(* C8: while a thread stays in the store its lastAccess never decreases, and
   every turn that reads an existing thread or persists one sets that thread's
   lastAccess to the clock's reading at that step. *)
C8_LastAccessRefreshed ==
    [][/\ \/ threads' = threads
          \/ \A j \in 1..Len(threads') :
                \* the record of the same key before the step: looked for at the
                \* same place, then one place on (the first record went), then
                \* anywhere
                IF j <= Len(threads) /\ threads[j].key = threads'[j].key
                THEN NotNewer(j, j)
                ELSE IF j < Len(threads) /\ threads[j + 1].key = threads'[j].key
                THEN NotNewer(j + 1, j)
                ELSE \A i \in 1..Len(threads) : NotNewer(i, j)
       /\ \A s \in Slots :
            /\ (LookedUp(s) /\ SessionFound(threads, reqs[s].threadId))
               => MapGet(threads', reqs[s].threadId).lastAccess = now
            /\ Persisted(s)
               => MapGet(threads', sent'.body.threadId).lastAccess = now]_vars

\* a request has read a thread that was last used earlier, at the clock's
\* reading now
C8_Witness ==
    \E s \in Slots :
        /\ reqs[s].pc = "model"
        /\ reqs[s].found
        /\ MapHas(threads, reqs[s].threadId)
        /\ MapGet(threads, reqs[s].threadId).lastAccess = now
        /\ now > StartTime

(* C9: when the search call or the model call fails, the request ends there
   with a 500 and the fixed message: it makes no further upstream call,
   persists nothing and evicts nothing; the entries of every stored thread are
   what they were. *)
C9_UpstreamFailureEndsRequest ==
    [][\A s \in Slots :
        /\ Caught(s)
           => /\ sent'.status = 500
              /\ sent'.body = ErrorBody(FailedToProcess)
              /\ threads' = threads
              /\ sent'.nSearch = 1
              /\ sent'.nModel = IF reqs[s].pc = "model" THEN 1 ELSE 0
              /\ reqs'[s] = IdleReq
        /\ LookedUp(s) => EntriesSeq(threads') = EntriesSeq(threads)]_vars

\* the model call of a request that had read a stored thread has just failed
C9_Witness ==
    /\ sent.status = 500
    /\ sent.nModel = 1
    /\ sent.found
    /\ MapHas(threads, sent.threadId)

(* C10: a turn that supplies a thread id with no record in the store does not
   fail: it runs with empty history, responds with that id, and on success
   leaves a record under it holding exactly this turn's two entries; a turn
   with no thread id gets the generated id thread_<Date.now()>. *)
C10_UnknownThreadStartsEmpty ==
    [][\A s \in Slots :
        /\ (LookedUp(s) /\ ~SessionFound(threads, reqs[s].threadId))
           => /\ reqs'[s].history = <<>>
              /\ ~reqs'[s].userContent.historyContext.wrapped
              /\ threads' = threads
        /\ (Persisted(s) /\ ~reqs[s].found /\ Truthy(reqs[s].threadId))
           => /\ sent'.status = 200
              /\ sent'.body.threadId = reqs[s].threadId
              /\ MapHas(threads', reqs[s].threadId)
              /\ MapGet(threads', reqs[s].threadId).entries =
                    <<Entry("user", reqs[s].userMessage, reqs[s].turn),
                      Entry("assistant", sent'.body.message, reqs[s].turn)>>
        /\ (Persisted(s) /\ ~Truthy(reqs[s].threadId))
           => sent'.body.threadId = Generated(now)]_vars

\* a turn on an id whose thread had been evicted has just created it anew
C10_Witness ==
    /\ sent.status = 200
    /\ ~sent.found
    /\ sent.threadId = Client(1)
    /\ Len(threads) = MAX_THREADS
    /\ threads[Len(threads)].key = Client(1)
    /\ Len(threads[Len(threads)].value.entries) = 2

(* C11: for every history entry whose text is longer than 200 characters, the
   context assembled for the model holds exactly the first 200 characters of
   that text, while the entry in the store, the one read and the one persisted
   after the turn, keeps its full text. *)
C11_ContextTruncatedStoreIntact ==
    [][\A s \in Slots :
        /\ LookedUp(s) =>
             LET history == reqs'[s].history
                 lines == reqs'[s].userContent.historyContext.lines
             IN  /\ SessionFound(threads, reqs[s].threadId)
                    => history = MapGet(threads, reqs[s].threadId).entries
                 /\ Len(lines) = Len(history)
                 /\ \A i \in 1..Len(history) :
                       /\ lines[i].role = history[i].role
                       /\ lines[i].text.id = history[i].text.id
                       /\ lines[i].text.len =
                             IF history[i].text.len > MAX_HISTORY_CHAR
                             THEN MAX_HISTORY_CHAR ELSE history[i].text.len
                 /\ EntriesSeq(threads') = EntriesSeq(threads)
        /\ Persisted(s) =>
             LET history == reqs[s].history
                 kept == MapGet(threads', sent'.body.threadId).entries
                 old == Len(kept) - 2
             IN  /\ old >= 0 /\ old <= Len(history)
                 /\ \A i \in 1..old : kept[i] = history[Len(history) - old + i]
                 /\ kept[old + 1].text = reqs[s].userMessage
                 /\ kept[old + 2].text = sent'.body.message]_vars

\* a request has read a thread with an entry of 201 characters: its context
\* holds 200 of them, the thread in the store all 201
C11_Witness ==
    \E s \in Slots :
        /\ reqs[s].pc = "model"
        /\ reqs[s].found
        /\ MapHas(threads, reqs[s].threadId)
        /\ \E i \in 1..Len(reqs[s].history) :
              /\ reqs[s].history[i].text.len = MAX_HISTORY_CHAR + 1
              /\ reqs[s].userContent.historyContext.lines[i].text.len = MAX_HISTORY_CHAR
              /\ MapGet(threads, reqs[s].threadId).entries[i].text.len = MAX_HISTORY_CHAR + 1

(* C12: a run of the periodic sweep at time now removes every thread with
   now - lastAccess > 30 minutes and no other: afterwards no thread is older
   than the TTL, a thread exactly 30 minutes old is kept, and every kept
   thread has the entries and lastAccess it had, in the order it had. *)
C12_SweepRemovesExactlyExpired ==
    [][Swept =>
        /\ \A j \in 1..Len(threads') :
              now - threads'[j].value.lastAccess <= THREAD_TTL_MS
        /\ threads' =
              SelectSeq(threads, LAMBDA e : now - e.value.lastAccess <= THREAD_TTL_MS)
        /\ \A i \in 1..Len(threads) :
              now - threads[i].value.lastAccess = THREAD_TTL_MS
              => \E j \in {i - 1, i} : j >= 1 /\ j <= Len(threads') /\ threads'[j] = threads[i]
        /\ now' = now]_vars

\* the sweep has run over a full store: the thread 35 minutes old is gone, the
\* one exactly 30 minutes old is now the first, the others remain
C12_Witness ==
    /\ nextSweep = LastSweep + 2 * SWEEP_INTERVAL_MS
    /\ now = LastSweep + SWEEP_INTERVAL_MS
    /\ Len(threads) = MAX_THREADS - 1
    /\ ~MapHas(threads, Client(1))
    /\ threads[1].key = Client(2)
    /\ now - threads[1].value.lastAccess = THREAD_TTL_MS
    /\ threads[1].value.entries = FirstTurnEntries

(* C14: the capacity eviction a chat request runs never removes the thread the
   same request has just persisted: when a successful turn responds, the store
   holds a thread under the returned threadId whose last two entries are this
   turn's user message and assistant reply, whatever the store held before and
   whatever other requests did in between. *)
C14_OwnRecordSurvivesEviction ==
    [][\A s \in Slots :
        Persisted(s) =>
            /\ sent'.status = 200
            /\ Truthy(sent'.body.threadId)
            /\ MapHas(threads', sent'.body.threadId)
            /\ LET entries == MapGet(threads', sent'.body.threadId).entries
                   n == Len(entries)
               IN  /\ n >= 2
                   /\ entries[n - 1] =
                         Entry("user", reqs[s].userMessage, reqs[s].turn)
                   /\ entries[n] =
                         Entry("assistant", sent'.body.message, reqs[s].turn)]_vars

\* a turn on the thread that is first in insertion order has just been
\* persisted into a full store: the thread the capacity check would remove
\* next is the one just written
C14_Witness ==
    /\ sent.persisted
    /\ sent.found
    /\ Len(threads) = MAX_THREADS
    /\ threads[1].key = sent.body.threadId
    /\ Len(threads[1].value.entries) = MAX_HISTORY_ENTRIES
    /\ threads[1].value.entries[MAX_HISTORY_ENTRIES].text = sent.body.message
    /\ threads[1].value.entries[MAX_HISTORY_ENTRIES].turn > 0

(* C13: every chat request sends exactly one response (400, 500 or success)
   and then takes no further step, provided each upstream call it makes
   returns or throws in the end; a request whose search or model call never
   completes never responds and never persists anything, while the other
   requests and the sweep go on. *)

\* a request that has not responded has persisted nothing, and no two calls in
\* flight are the same request
C13_InFlightHasNotPersisted ==
    \A s \in Slots :
        InFlight(reqs[s]) =>
            /\ reqs[s].turn >= 1 /\ reqs[s].turn <= nStarted
            /\ sent.turn # reqs[s].turn
            /\ \A t \in Slots \ {s} : InFlight(reqs[t]) => reqs[t].turn # reqs[s].turn
            /\ \A i \in 1..Len(threads) :
                  \A j \in 1..Len(threads[i].value.entries) :
                      threads[i].value.entries[j].turn # reqs[s].turn

\* a response is the one response of its request, sent by the step that ends
\* it; a request whose pending call has not completed stays where it is
C13_OneResponseEndsRequest ==
    /\ sent'.status # 0 =>
          /\ sent'.status \in {200, 400, 500}
          /\ \/ sent'.turn = nStarted + 1 /\ nStarted' = nStarted + 1
             \/ \E s \in Slots : InFlight(reqs[s]) /\ reqs[s].turn = sent'.turn
          /\ \A s \in Slots : InFlight(reqs'[s]) => reqs'[s].turn # sent'.turn
    /\ \A s \in Slots :
          /\ (InFlight(reqs[s]) /\ ~InFlight(reqs'[s]))
             => /\ sent'.status \in {200, 500}
                /\ sent'.turn = reqs[s].turn
                /\ reqs'[s] = IdleReq
          /\ (InFlight(reqs[s]) /\ reqs'[s].pc = reqs[s].pc)
             => /\ reqs'[s].turn = reqs[s].turn
                /\ sent'.turn # reqs[s].turn
          /\ (InFlight(reqs'[s]) /\ reqs'[s].turn # reqs[s].turn)
             => /\ ~InFlight(reqs[s])
                /\ reqs'[s].turn = nStarted + 1
                /\ nStarted' = nStarted + 1
    /\ sent'.persisted => \E s \in Slots : Persisted(s)
    /\ nStarted' >= nStarted

C13_ExactlyOneResponse ==
    /\ []C13_InFlightHasNotPersisted
    /\ [][C13_OneResponseEndsRequest]_vars
    /\ \A s \in Slots :
          WF_vars(Continues(s)) => (InFlight(reqs[s]) ~> ~InFlight(reqs[s]))
    /\ <>(nextSweep > LastSweep + SWEEP_INTERVAL_MS)

\* the first request still waits for its search call, after the sweep has run
\* and the second request, received later, has responded with success
C13_Witness ==
    /\ reqs[1].pc = "search"
    /\ reqs[1].turn = 1
    /\ sent.status = 200
    /\ sent.turn = 2
    /\ nextSweep > LastSweep + SWEEP_INTERVAL_MS
    /\ \A i \in 1..Len(threads) :
          \A j \in 1..Len(threads[i].value.entries) :
              threads[i].value.entries[j].turn # 1

====
